---- MODULE Spec2Model ----
(***************************************************************************)
(* A model of the Git LFS helper library (src/git_lfs.py) and of the       *)
(* migration script that drives it (src/git_lfs_test.py).                  *)
(*                                                                         *)
(* Text is modelled as a sequence of tokens.  A token is one character,    *)
(* except for the two fixed pieces of the attribute line, which are kept   *)
(* whole: FILTER is the text "filter=lfs" and REST is the text             *)
(* "diff=lfs merge=lfs -text".  "filter=lfs" cannot overlap itself and no  *)
(* other token is a letter of it, so searching for the token is searching  *)
(* for the substring.                                                      *)
(***************************************************************************)
EXTENDS Integers, Sequences, FiniteSets

VARIABLES
    gitattributes,          \* content of <repo>/.gitattributes
    gitattributes_exists,   \* whether the file exists
    large_files,            \* argument of the last synthesizer call
    new_patterns,           \* the set new_patterns of the last call
    derived,                \* per record, the candidates its iteration added
    before,                 \* content of .gitattributes when the last call began
    op,                     \* the operation that ran last
    returned,               \* what it gave its caller: a value, or "raised"
    io_error,               \* it met an I/O error while it appended
    size_threshold_mb,      \* argument of GitLFS.find_large_files
    repo_objects,           \* per kind of object, how many the repository holds
    found,                  \* per kind of object, how many records were returned
    scan_pc,                \* "ready" before find_large_files, "done" after
    sizer,                  \* what running git-sizer gives
    sizer_out,              \* per kind, the blobs git-sizer lists as biggest objects
    shared_path,            \* the kinds whose blobs are the versions of one file
    total_commits,          \* len(commits) of find_large_files_in_history
    commit_i,               \* commits the loop has finished
    parents_left,           \* parents of the current commit still to diff
    diffs_left,             \* entries of the current diff still to process
    file_sizes,             \* the dict, as its items in insertion order
    history,                \* the list find_large_files_in_history returns
    hist_pc,                \* "commits", "parents", "diffs" or "done"
    observed,               \* every <<path, size>> the walk has read
    kept,                   \* paths recorded when a diff failed
    pairs_owed,             \* (commit, parent) pairs met and not yet tried
    resumed,                \* a diff failed with a parent still to diff
    retry_count,            \* argument of GitLFS._run_command
    stream_output,          \* argument of GitLFS._run_command
    timeout,                \* TRUE when a timeout is given, FALSE for None
    attempt,                \* the loop variable of _run_command
    process,                \* the local variable process: bound or not, and its returncode
    outcomes,               \* what every child started so far did
    stdout_lines,           \* the list stdout_lines: per line, the attempt that printed it
    run_result,             \* what _run_command gave its caller
    run_pc,                 \* "loop" or "done"
    has_git,                \* the repository root holds a .git entry
    batch_size,             \* argument of GitLFS.push
    local_branches,         \* local branches of the repository
    branches,               \* the list get_branch_list gave, in batch mode
    batch_i,                \* the loop variable i of the loop over the batches
    batch_j,                \* the place in the batch of the branch to push next
    commands,               \* the commands issued, in order, with their codes
    pushed,                 \* branches pushed with success in batch mode
    success,                \* the local variable success of push
    failed,                 \* the commands that gave a non-zero code
    issued,                 \* how many commands were issued
    push_result,            \* "none", or what push returned
    push_pc,                \* where the object and its push are
    status_stdout,          \* the lines git lfs status printed
    status_code,            \* the code git lfs status gave
    status_result,          \* the dictionary status returned, once it returned
    extensions,             \* the dictionary extensions, in the order of insertion
    converted_patterns,     \* the list converted_patterns
    failed_patterns,        \* the list failed_patterns
    conv_success,           \* the local variable success of convert_files_to_lfs
    conv_calls,             \* the calls convert_files_to_lfs made, in order
    conv_result,            \* "none", or the success convert_files_to_lfs returned
    conv_pc,                \* where convert_files_to_lfs is
    steps,                  \* the steps the script ran, in order
    main_pc                 \* where the script is

attrVars == <<gitattributes, gitattributes_exists, large_files, new_patterns,
              derived, before, op, returned, io_error>>

scanVars == <<size_threshold_mb, repo_objects, found, scan_pc, sizer, sizer_out,
              shared_path>>

histVars == <<total_commits, commit_i, parents_left, diffs_left, file_sizes, history,
              hist_pc, observed, kept, pairs_owed, resumed>>

runVars == <<retry_count, stream_output, timeout, attempt, process, outcomes, stdout_lines,
             run_result, run_pc>>

pushVars == <<has_git, batch_size, local_branches, branches, batch_i, batch_j, commands,
              pushed, success,
              failed, issued, push_result, push_pc>>

statusVars == <<status_stdout, status_code, status_result>>

convVars == <<extensions, converted_patterns, failed_patterns, conv_success, conv_calls,
              conv_result, conv_pc>>

mainVars == <<steps, main_pc>>

vars == <<attrVars, scanVars, histVars, runVars, pushVars, statusVars, convVars, mainVars>>

----------------------------------------------------------------------------
(* Bounds *)

MaxRecords == 2
MaxShortRecords == 1
MaxInitLines == 1
MaxFileLen == 20
MaxThresholdMb == 1
MaxBlobs == 101
MaxOther == 1
MaxCommits == 2
MaxParents == 2
MaxDiffs == 1
MaxTreeBlobs == 1
MaxRetryCount == 3
MaxBatchSize == 2
MaxBranches == 3
MaxStatusLines == 4

----------------------------------------------------------------------------
(* Text *)

FILTER == "filter=lfs"
REST == "diff=lfs merge=lfs -text"
NL == "\n"
SP == " "

\* Code point of the first character of a token that occurs in a pattern:
\* Python compares str values code point by code point.
Ord(c) ==
    CASE c = SP -> 32
      [] c = "*" -> 42
      [] c = "." -> 46
      [] c = "/" -> 47
      [] c = "a" -> 97
      [] c = "b" -> 98
      [] c = "d" -> 100
      [] c = FILTER -> 102
      [] c = "m" -> 109
      [] c = "z" -> 122

Range(s) == {s[i] : i \in 1..Len(s)}

SetMax(S) == CHOOSE x \in S : \A y \in S : y <= x
SetMin(S) == CHOOSE x \in S : \A y \in S : x <= y

\* s < t for str values
StrLess(s, t) ==
    \E k \in 1..Len(t) :
        /\ \A j \in 1..(k - 1) : j <= Len(s) /\ s[j] = t[j]
        /\ \/ k = Len(s) + 1
           \/ k <= Len(s) /\ Ord(s[k]) < Ord(t[k])

\* The strings of S in ascending order: each stands after the strings that
\* are less than it.
Ascending(S) ==
    [i \in 1..Cardinality(S) |->
        CHOOSE x \in S : Cardinality({y \in S : StrLess(y, x)}) = i - 1]

\* str.rfind(c) + 1: the 1-based position of the last c, 0 when there is none
RFind(s, c) ==
    LET at == {i \in 1..Len(s) : s[i] = c}
    IN  IF at = {} THEN 0 ELSE SetMax(at)

IsSpace(c) == c \in {SP, NL}

\* str.strip()
Strip(s) ==
    LET keep == {i \in 1..Len(s) : ~IsSpace(s[i])}
    IN  IF keep = {} THEN <<>> ELSE SubSeq(s, SetMin(keep), SetMax(keep))

\* The positions at which the lines of a text start.
LineStarts(content) ==
    {k \in 1..Len(content) : k = 1 \/ content[k - 1] = NL}

\* The line that starts at k, with its line end; the last line has none when
\* the text does not end in one.
LineFrom(content, k) ==
    LET nls == {j \in k..Len(content) : content[j] = NL}
    IN  SubSeq(content, k, IF nls = {} THEN Len(content) ELSE SetMin(nls))

\* for line in f
FileLines(content) == {LineFrom(content, k) : k \in LineStarts(content)}

\* line.split('filter=lfs')[0]
BeforeFilter(line) ==
    SubSeq(line, 1, SetMin({i \in 1..Len(line) : line[i] = FILTER}) - 1)

\* os.path.dirname
dirname(p) ==
    LET i == RFind(p, "/")
        head == SubSeq(p, 1, i)
        nonSlash == {j \in 1..Len(head) : head[j] # "/"}
    IN  IF nonSlash = {} THEN head ELSE SubSeq(head, 1, SetMax(nonSlash))

\* os.path.basename
basename(p) == SubSeq(p, RFind(p, "/") + 1, Len(p))

\* os.path.splitext, as the pair <<root, ext>>: the extension starts at the
\* last dot, unless only dots precede that dot in the file name.
splitext(p) ==
    LET sepIndex == RFind(p, "/")
        dotIndex == RFind(p, ".")
    IN  IF /\ dotIndex > sepIndex
           /\ \E k \in (sepIndex + 1)..(dotIndex - 1) : p[k] # "."
        THEN <<SubSeq(p, 1, dotIndex - 1), SubSeq(p, dotIndex, Len(p))>>
        ELSE <<p, <<>>>>

\* str.lstrip('.')
LStripDots(s) ==
    LET keep == {i \in 1..Len(s) : s[i] # "."}
    IN  IF keep = {} THEN <<>> ELSE SubSeq(s, SetMin(keep), Len(s))

\* ''.join(ss)
Concat(ss) ==
    LET upTo[i \in 0..Len(ss)] == IF i = 0 THEN <<>> ELSE upTo[i - 1] \o ss[i]
    IN  upTo[Len(ss)]

\* f'{pattern} filter=lfs diff=lfs merge=lfs -text\n'
AttributeLine(pattern) == pattern \o <<SP, FILTER, SP, REST, NL>>

----------------------------------------------------------------------------
(* GitLFS.create_gitattributes *)

\* The patterns read back from the file: of every line that contains
\* "filter=lfs", the stripped text before its first occurrence.
ExistingPatterns(exists, content) ==
    IF exists
    THEN {Strip(BeforeFilter(line)) :
            line \in {l \in FileLines(content) : FILTER \in Range(l)}}
    ELSE {}

\* PatternsOfRecord without the directory-scoped pattern
PatternsOfRecordNoDirGlob(file) ==
    LET file_path == file.path
        filename == basename(file_path)
        ext == splitext(filename)[2]
    IN  IF ext # <<>> THEN {<<"*", ".">> \o LStripDots(ext)} ELSE {file_path}

\* PatternsOfRecord with the file name, not the path, of a file without
\* extension
PatternsOfRecordFileName(file) ==
    LET file_path == file.path
        dir_path == dirname(file_path)
        filename == basename(file_path)
        ext == splitext(filename)[2]
    IN  IF ext # <<>>
        THEN {<<"*", ".">> \o LStripDots(ext)}
             \cup (IF dir_path # <<>>
                   THEN {dir_path \o <<"/", "*", ".">> \o LStripDots(ext)}
                   ELSE {})
        ELSE {filename}

\* The patterns one record adds to new_patterns.
PatternsOfRecord(file) ==
    LET file_path == file.path
        dir_path == dirname(file_path)
        filename == basename(file_path)
        ext == splitext(filename)[2]
    IN  IF ext # <<>>
        THEN {<<"*", ".">> \o LStripDots(ext)}
             \cup (IF dir_path # <<>>
                   THEN {dir_path \o <<"/", "*", ".">> \o LStripDots(ext)}
                   ELSE {})
        ELSE {file_path}

NewPatterns(files) == UNION {PatternsOfRecord(files[k]) : k \in 1..Len(files)}

\* open(gitattributes_path, 'w') instead of 'a'
WriteTruncating(content, text) == text

\* open(gitattributes_path, 'a') followed by the writes: the text goes after
\* the content the file has.
WriteAppending(content, text) == content \o text

\* The text one call writes: a newline when the file is not empty, then one
\* attribute line per pattern.
LibraryText(content, patterns_to_add) ==
    (IF Len(content) > 0 THEN <<NL>> ELSE <<>>)
    \o Concat([k \in 1..Len(patterns_to_add) |-> AttributeLine(patterns_to_add[k])])

----------------------------------------------------------------------------
(* create_gitattributes_for_large_files, of the migration script *)

\* The patterns one record adds to new_patterns: in a directory the path
\* itself and, with an extension, <dir>/*<ext>; at the root the file name.
ScriptPatternsOfRecord(file) ==
    LET file_path == file.path
        dir_path == dirname(file_path)
        filename == basename(file_path)
        ext == splitext(filename)[2]
    IN  IF dir_path # <<>>
        THEN {file_path}
             \cup (IF ext # <<>> THEN {dir_path \o <<"/", "*">> \o ext} ELSE {})
        ELSE {filename}

ScriptNewPatterns(files) ==
    UNION {ScriptPatternsOfRecord(files[k]) : k \in 1..Len(files)}

\* open(gitattributes_path, 'a') followed by the writes
ScriptWriteAppending(content, text) == content \o text

\* The text one call writes: a newline when the file is not empty, then one
\* attribute line per sorted pattern that is not an existing one.
ScriptText(content, sorted_patterns, existing_patterns) ==
    (IF Len(content) > 0 THEN <<NL>> ELSE <<>>)
    \o Concat([k \in 1..Len(sorted_patterns) |->
                  IF sorted_patterns[k] \notin existing_patterns
                  THEN AttributeLine(sorted_patterns[k])
                  ELSE <<>>])

----------------------------------------------------------------------------
(* GitLFS.find_large_files, the scan that runs when git-sizer is not used *)

\* head -n 100
HeadLines == 100

\* The kinds of line that `git rev-list --all --objects | git cat-file
\* --batch-check` prints, "<objectname> <objecttype> <objectsize> <rest>":
\* blobs above, at and below the threshold, and a tree whose path holds the
\* text "blob".  The size is given relative to the threshold; parts is the
\* number of white-space separated parts of the line.
ObjectKinds ==
    [ tree  |-> [objecttype |-> "tree", over |-> 2, has_blob_in_rest |-> TRUE, parts |-> 4],
      above |-> [objecttype |-> "blob", over |-> 1, has_blob_in_rest |-> FALSE, parts |-> 4],
      at    |-> [objecttype |-> "blob", over |-> 0, has_blob_in_rest |-> FALSE, parts |-> 4],
      below |-> [objecttype |-> "blob", over |-> -1, has_blob_in_rest |-> FALSE, parts |-> 4] ]

KindNames == DOMAIN ObjectKinds

\* sort -k3 -nr: the kinds by size, largest first
KindsBySize == <<"tree", "above", "at", "below">>

ObjectSize(kind, threshold_bytes) == threshold_bytes + ObjectKinds[kind].over

\* grep blob: the line holds the text "blob", as its type or in its path
GrepBlob(kind) ==
    ObjectKinds[kind].objecttype = "blob" \/ ObjectKinds[kind].has_blob_in_rest

Min(a, b) == IF a <= b THEN a ELSE b

\* grep blob | sort -k3 -nr | head -n 100: per kind, how many of its lines
\* are among the first HeadLines lines of the sorted output
head(objects) ==
    LET passed == [k \in KindNames |-> IF GrepBlob(k) THEN objects[k] ELSE 0]
        taken[i \in 0..Len(KindsBySize)] ==
            IF i = 0 THEN 0 ELSE taken[i - 1] + passed[KindsBySize[i]]
        position(k) == CHOOSE i \in 1..Len(KindsBySize) : KindsBySize[i] = k
    IN  [k \in KindNames |->
            Min(passed[k],
                IF taken[position(k) - 1] >= HeadLines
                THEN 0
                ELSE HeadLines - taken[position(k) - 1])]

\* git-sizer ran and is used whatever its code
FastPathAlways(outcome) == TRUE

\* code == 0: git-sizer ran and its output is used
FastPath(outcome) == outcome = "exit 0"

\* What _run_command gives for git-sizer: it ran and exited with 0, it
\* exited non-zero on every attempt, or it could not be started
SizerOutcomes == {"exit 0", "exit non-zero", "not started"}

\* _parse_sizer_output: the blob lines under "Biggest objects" whose size is
\* at or above the threshold
_parse_sizer_output(output, threshold_bytes) ==
    [k \in KindNames |->
        IF ObjectKinds[k].objecttype = "blob" /\ ObjectSize(k, threshold_bytes) >= threshold_bytes
        THEN output[k]
        ELSE 0]

\* The loop over the lines: a line of at least four parts whose size is at
\* or above the threshold gives a record.
ProcessResults(lines, threshold_bytes) ==
    [k \in KindNames |->
        IF ObjectKinds[k].parts >= 4 /\ ObjectSize(k, threshold_bytes) >= threshold_bytes
        THEN lines[k]
        ELSE 0]

----------------------------------------------------------------------------
(* find_large_files_in_history *)

\* round(size / (1024 * 1024), 2), in hundredths of a MB; round() rounds a
\* half to the even neighbour
size_mb(size) ==
    LET q == (size * 100) \div (1024 * 1024)
        r == (size * 100) % (1024 * 1024)
    IN  IF 2 * r > 1024 * 1024 \/ (2 * r = 1024 * 1024 /\ q % 2 = 1)
        THEN q + 1
        ELSE q

HistPaths == {"p", "q"}

\* Blob sizes: at the threshold, one byte above it, twice the threshold
BlobSizes(size_threshold) == {size_threshold, size_threshold + 1, 2 * size_threshold}

\* diff.a_blob or diff.b_blob being None
NoBlob == [path |-> "", size |-> 0, readable |-> FALSE]

\* A blob with its path; reading the size of an unreadable one raises
Blobs(size_threshold) ==
    [path : HistPaths, size : BlobSizes(size_threshold), readable : {TRUE}]
        \cup [path : HistPaths, size : {0}, readable : {FALSE}]

\* commit.tree.traverse(): blobs of distinct paths
Trees(size_threshold) ==
    { t \in UNION { [1..n -> Blobs(size_threshold)] : n \in 0..MaxTreeBlobs } :
        \A j, k \in 1..Len(t) : j # k => t[j].path # t[k].path }

RecordedPaths(sizes) == { sizes[k].path : k \in 1..Len(sizes) }

\* A size always counting as larger than the recorded one
AnySize(size, recorded) == TRUE

\* size > file_sizes[path]['size']
Larger(size, recorded) == size > recorded

\* if size > size_threshold: if path not in file_sizes or size >
\* file_sizes[path]['size']: file_sizes[path] = {...}
Record(sizes, blob, commit, size_threshold) ==
    LET info == [path |-> blob.path, size |-> blob.size,
                 size_mb |-> size_mb(blob.size), commit |-> commit]
    IN  IF blob.size > size_threshold
        THEN IF blob.path \notin RecordedPaths(sizes)
             THEN Append(sizes, info)
             ELSE [k \in 1..Len(sizes) |->
                      IF sizes[k].path = blob.path /\ Larger(blob.size, sizes[k].size)
                      THEN info
                      ELSE sizes[k]]
        ELSE sizes

\* The try block around one blob: an unreadable blob is skipped
RecordBlob(sizes, blob, commit, size_threshold) ==
    IF blob = NoBlob \/ ~blob.readable
    THEN sizes
    ELSE Record(sizes, blob, commit, size_threshold)

\* for blob in commit.tree.traverse()
RecordTree(sizes, tree, commit, size_threshold) ==
    LET after[n \in 0..Len(tree)] ==
            IF n = 0 THEN sizes
            ELSE RecordBlob(after[n - 1], tree[n], commit, size_threshold)
    IN  after[Len(tree)]

\* One entry of a diff: a_blob, then b_blob unless reading a_blob's size
\* raised, which skips the entry
BSideRead(a) == a = NoBlob \/ a.readable

RecordDiff(sizes, a, b, commit, size_threshold) ==
    IF BSideRead(a)
    THEN RecordBlob(RecordBlob(sizes, a, commit, size_threshold), b, commit, size_threshold)
    ELSE sizes

\* The sizes read from a blob
Read(blob) == IF blob # NoBlob /\ blob.readable THEN {<<blob.path, blob.size>>} ELSE {}

\* A failed diff drops the remaining parents of the commit
DropParents(left) == 0

\* except GitCommandError: continue, on to the next parent
AfterFailedDiff(left) == left - 1

\* large_files.sort(key=lambda x: x['size_mb'], reverse=True): a stable sort
SortBySizeMb(list) ==
    LET n == Len(list)
        pos(k) == Cardinality({ j \in 1..n :
                      \/ list[j].size_mb > list[k].size_mb
                      \/ list[j].size_mb = list[k].size_mb /\ j < k }) + 1
    IN  [p \in 1..n |-> list[CHOOSE k \in 1..n : pos(k) = p]]

\* Convert dictionary to list, then sort
LargeFilesList(sizes) ==
    SortBySizeMb([k \in 1..Len(sizes) |->
        [path |-> sizes[k].path, size_mb |-> sizes[k].size_mb, commit |-> sizes[k].commit]])

----------------------------------------------------------------------------
(* Inputs *)

\* Repository-relative paths: with an extension at the root, in a nested
\* directory, with two dots, without an extension, with a leading dot only,
\* and with "filter=lfs" in the name.
Paths ==
    { <<"a", ".", "m">>,
      <<"d", "/", "b", "/", "a", ".", "m">>,
      <<"d", "/", "a", ".", "m", ".", "z">>,
      <<"d", "/", "a">>,
      <<".", "m">>,
      <<"d", "/", "a", FILTER>> }

Records == [path : Paths]

RecordLists == UNION {[1..n -> Records] : n \in 0..MaxRecords}

ShortRecordLists == UNION {[1..n -> Records] : n \in 0..MaxShortRecords}

\* Lines a .gitattributes file holds before the first call: an LFS line and
\* a line that sets another attribute.
InitLines ==
    { <<SP, "*", ".", "m", SP, SP, FILTER, SP, REST>>,
      <<"*", ".", "m", SP, "b">> }

\* '\n'.join(ls)
JoinLines(ls) ==
    LET upTo[i \in 1..Len(ls)] ==
            IF i = 1 THEN ls[1] ELSE upTo[i - 1] \o <<NL>> \o ls[i]
    IN  upTo[Len(ls)]

\* The empty file, and files of lines with and without a final line end.
InitContents ==
    LET bodies == {JoinLines(ls) :
                     ls \in UNION {[1..n -> InitLines] : n \in 1..MaxInitLines}}
    IN  {<<>>} \cup bodies \cup {b \o <<NL>> : b \in bodies}

\* Every pattern a record can give, in ascending order.
PatternOrder ==
    Ascending(UNION {PatternsOfRecord(r) \cup ScriptPatternsOfRecord(r) : r \in Records})

\* sorted(list(S)) for a set of patterns: the patterns of S, in the order
\* they have among all patterns.
Sorted(S) == SelectSeq(PatternOrder, LAMBDA p : p \in S)

\* The candidates of every argument, computed once.
NewPatternsOf == [files \in RecordLists |-> NewPatterns(files)]

DerivedOf ==
    [files \in RecordLists |-> [k \in 1..Len(files) |-> PatternsOfRecord(files[k])]]

ScriptNewPatternsOf == [files \in ShortRecordLists |-> ScriptNewPatterns(files)]

ScriptDerivedOf ==
    [files \in ShortRecordLists |->
        [k \in 1..Len(files) |-> ScriptPatternsOfRecord(files[k])]]

----------------------------------------------------------------------------
(* Actions *)

create_gitattributes(files, existing_patterns) ==
    LET candidates == NewPatternsOf[files]
        patterns_to_add == Sorted(candidates \ existing_patterns)
        writes == candidates # {} /\ patterns_to_add # <<>>
        written == WriteAppending(gitattributes,
                                  LibraryText(gitattributes, patterns_to_add))
    IN  /\ Len(written) <= MaxFileLen
        /\ gitattributes' = IF writes THEN written ELSE gitattributes
        /\ gitattributes_exists' = (gitattributes_exists \/ writes)
        /\ large_files' = files
        /\ new_patterns' = candidates
        /\ derived' = DerivedOf[files]
        /\ before' = gitattributes
        /\ op' = "create_gitattributes"
        /\ returned' = "True"
        /\ io_error' = FALSE
        /\ UNCHANGED <<statusVars, convVars, mainVars,
                   scanVars, histVars, runVars, pushVars>>

create_gitattributes_for_large_files(files, existing_patterns) ==
    LET candidates == ScriptNewPatternsOf[files]
        writes == candidates # {}
        written == ScriptWriteAppending(gitattributes,
                        ScriptText(gitattributes, Sorted(candidates), existing_patterns))
    IN  /\ Len(written) <= MaxFileLen
        /\ gitattributes' = IF writes THEN written ELSE gitattributes
        /\ gitattributes_exists' = (gitattributes_exists \/ writes)
        /\ large_files' = files
        /\ new_patterns' = candidates
        /\ derived' = ScriptDerivedOf[files]
        /\ before' = gitattributes
        /\ op' = "create_gitattributes_for_large_files"
        /\ returned' = "None"
        /\ io_error' = FALSE
        /\ UNCHANGED <<statusVars, convVars, mainVars,
                   scanVars, histVars, runVars, pushVars>>

\* GitLFS.create_gitattributes when open() or a write to the file raises
\* OSError: nothing catches it.  Of the text to append, some whole lines may
\* have reached the file.
create_gitattributes_io_error(files, existing_patterns) ==
    LET candidates == NewPatternsOf[files]
        patterns_to_add == Sorted(candidates \ existing_patterns)
        text == LibraryText(gitattributes, patterns_to_add)
    IN  /\ candidates # {}
        /\ patterns_to_add # <<>>
        /\ Len(gitattributes) + Len(text) <= MaxFileLen
        /\ \E n \in {0} \cup {k \in 1..(Len(text) - 1) : text[k] = NL}, opened \in BOOLEAN :
              /\ n > 0 => opened
              /\ gitattributes' = WriteAppending(gitattributes, SubSeq(text, 1, n))
              /\ gitattributes_exists' = (gitattributes_exists \/ opened)
        /\ large_files' = files
        /\ new_patterns' = candidates
        /\ derived' = DerivedOf[files]
        /\ before' = gitattributes
        /\ op' = "create_gitattributes"
        /\ returned' = "raised"
        /\ io_error' = TRUE
        /\ UNCHANGED <<statusVars, convVars, mainVars,
                   scanVars, histVars, runVars, pushVars>>

AttrIdle ==
    /\ gitattributes = <<>>
    /\ gitattributes_exists = FALSE
    /\ large_files = <<>>
    /\ new_patterns = {}
    /\ derived = <<>>
    /\ before = <<>>
    /\ op = "none"
    /\ returned = "none"
    /\ io_error = FALSE

ScanIdle ==
    /\ size_threshold_mb = 1
    /\ repo_objects = [k \in KindNames |-> 0]
    /\ found = [k \in KindNames |-> 0]
    /\ scan_pc = "ready"
    /\ sizer = "not started"
    /\ sizer_out = [k \in KindNames |-> 0]
    /\ shared_path = {}

HistIdle ==
    /\ total_commits = 0
    /\ commit_i = 0
    /\ parents_left = 0
    /\ diffs_left = 0
    /\ file_sizes = <<>>
    /\ history = <<>>
    /\ hist_pc = "commits"
    /\ observed = {}
    /\ kept = {}
    /\ pairs_owed = 0
    /\ resumed = FALSE

RunIdle ==
    /\ retry_count = 3
    /\ stream_output = FALSE
    /\ timeout = FALSE
    /\ attempt = 0
    /\ process = [bound |-> FALSE, returncode |-> 0]
    /\ outcomes = <<>>
    /\ stdout_lines = <<>>
    /\ run_result = [kind |-> "none", code |-> 0]
    /\ run_pc = "loop"

PushIdle ==
    /\ has_git = TRUE
    /\ batch_size = 0
    /\ local_branches = 0
    /\ branches = <<>>
    /\ batch_i = 0
    /\ batch_j = 0
    /\ commands = <<>>
    /\ pushed = 0
    /\ success = TRUE
    /\ failed = {}
    /\ issued = 0
    /\ push_result = "none"
    /\ push_pc = "new"

\* status has not returned.
NotReturned ==
    [returned |-> FALSE, keys |-> {}, tracked_files |-> <<>>, not_tracked |-> <<>>]

StatusIdle ==
    /\ status_stdout = <<>>
    /\ status_code = 0
    /\ status_result = NotReturned

ConvIdle ==
    /\ extensions = <<>>
    /\ converted_patterns = <<>>
    /\ failed_patterns = <<>>
    /\ conv_success = TRUE
    /\ conv_calls = <<>>
    /\ conv_result = "none"
    /\ conv_pc = "idle"

MainIdle ==
    /\ steps = <<>>
    /\ main_pc = "idle"

InitAttr ==
    /\ StatusIdle
    /\ ConvIdle
    /\ MainIdle
    /\ ScanIdle
    /\ HistIdle
    /\ RunIdle
    /\ PushIdle
    /\ gitattributes \in InitContents
    /\ gitattributes_exists \in (IF gitattributes = <<>> THEN BOOLEAN ELSE {TRUE})
    /\ large_files = <<>>
    /\ new_patterns = {}
    /\ derived = <<>>
    /\ before = <<>>
    /\ op = "none"
    /\ returned = "none"
    /\ io_error = FALSE

LibraryCall ==
    LET existing_patterns == ExistingPatterns(gitattributes_exists, gitattributes)
    IN  \E files \in RecordLists : create_gitattributes(files, existing_patterns)

ScriptCall ==
    LET existing_patterns == ExistingPatterns(gitattributes_exists, gitattributes)
    IN  \E files \in ShortRecordLists :
            create_gitattributes_for_large_files(files, existing_patterns)

NextLib == LibraryCall

\* The library's synthesizer alone.
SpecLib == InitAttr /\ [][NextLib]_vars

\* A library call with one of the shorter arguments the script is called with.
ShortLibraryCall ==
    LET existing_patterns == ExistingPatterns(gitattributes_exists, gitattributes)
    IN  \E files \in ShortRecordLists :
            create_gitattributes(files, existing_patterns)

NextAttr == ShortLibraryCall \/ ScriptCall

\* The library's and the script's synthesizers on one file.
SpecAttr == InitAttr /\ [][NextAttr]_vars

\* A library call during which appending to the file fails.
LibraryCallFails ==
    LET existing_patterns == ExistingPatterns(gitattributes_exists, gitattributes)
    IN  \E files \in ShortRecordLists :
            create_gitattributes_io_error(files, existing_patterns)

NextWrite == ShortLibraryCall \/ LibraryCallFails

\* The library's synthesizer on a file that may fail to take the text.
SpecWrite == InitAttr /\ [][NextWrite]_vars

find_large_files ==
    /\ scan_pc = "ready"
    /\ LET threshold_bytes == size_threshold_mb * 1024 * 1024
       IN  found' = IF FastPath(sizer)
                    THEN _parse_sizer_output(sizer_out, threshold_bytes)
                    ELSE ProcessResults(head(repo_objects), threshold_bytes)
    /\ scan_pc' = "done"
    /\ UNCHANGED <<statusVars, convVars, mainVars,
                   size_threshold_mb, repo_objects, sizer, sizer_out, shared_path,
                   attrVars, histVars, runVars, pushVars>>

\* A repository of up to MaxBlobs blobs above the threshold and up to
\* MaxOther objects of every other kind.
InitScan ==
    /\ StatusIdle
    /\ ConvIdle
    /\ MainIdle
    /\ PushIdle
    /\ AttrIdle
    /\ HistIdle
    /\ RunIdle
    /\ size_threshold_mb \in 1..MaxThresholdMb
    /\ repo_objects \in [tree : 0..MaxOther, above : 0..MaxBlobs,
                          at : 0..MaxOther, below : 0..MaxOther]
    /\ found = [k \in KindNames |-> 0]
    /\ scan_pc = "ready"
    /\ sizer = "not started"
    /\ sizer_out = [k \in KindNames |-> 0]
    /\ shared_path = {}

NextScan == find_large_files

\* One scan of a repository.
SpecScan == InitScan /\ [][NextScan]_vars

\* A repository and a git-sizer that runs, fails or is missing; a git-sizer
\* that did not exit with 0 has printed no list.
InitSizer ==
    /\ StatusIdle
    /\ ConvIdle
    /\ MainIdle
    /\ PushIdle
    /\ AttrIdle
    /\ HistIdle
    /\ RunIdle
    /\ size_threshold_mb \in 1..MaxThresholdMb
    /\ repo_objects \in [tree : 0..MaxOther, above : 0..MaxOther,
                          at : 0..MaxOther, below : 0..MaxOther]
    /\ found = [k \in KindNames |-> 0]
    /\ scan_pc = "ready"
    /\ sizer \in SizerOutcomes
    /\ sizer_out \in [tree : {0}, above : 0..MaxOther, at : {0}, below : 0..MaxOther]
    /\ sizer # "exit 0" => sizer_out = [k \in KindNames |-> 0]
    /\ shared_path = {}

\* One scan of a repository, with git-sizer tried first.
SpecSizer == InitSizer /\ [][NextScan]_vars

\* The commit loop moves on to the next commit.
NextCommit ==
    /\ commit_i' = commit_i + 1
    /\ hist_pc' = "commits"

\* The parent loop moves on: to the next parent, or to the next commit.
NextParent(left) ==
    /\ parents_left' = left
    /\ IF left = 0
       THEN NextCommit
       ELSE hist_pc' = "parents" /\ commit_i' = commit_i

\* A root commit: every blob of its tree is examined.
RootCommit ==
    /\ hist_pc = "commits"
    /\ commit_i < total_commits
    /\ \E tree \in Trees(size_threshold_mb * 1024 * 1024) :
        /\ file_sizes' = RecordTree(file_sizes, tree, commit_i, size_threshold_mb * 1024 * 1024)
        /\ observed' = observed \cup UNION { Read(tree[k]) : k \in 1..Len(tree) }
    /\ NextCommit
    /\ UNCHANGED <<statusVars, convVars, mainVars,
                   total_commits, parents_left, diffs_left, history, kept,
                   pairs_owed, resumed, attrVars, scanVars, runVars, pushVars>>

\* A commit with parents: the parent loop starts.
CommitWithParents ==
    /\ hist_pc = "commits"
    /\ commit_i < total_commits
    /\ \E n \in 1..MaxParents :
        /\ parents_left' = n
        /\ pairs_owed' = pairs_owed + n
    /\ hist_pc' = "parents"
    /\ UNCHANGED <<statusVars, convVars, mainVars,
                   total_commits, commit_i, diffs_left, file_sizes, history, observed,
                   kept, resumed, attrVars, scanVars, runVars, pushVars>>

\* commit.diff(parent) raises: the warning is printed and the loop goes on.
DiffFails ==
    /\ hist_pc = "parents"
    /\ \E error \in {"GitCommandError", "ValueError"} :
        /\ kept' = kept \cup RecordedPaths(file_sizes)
        /\ resumed' = (resumed \/ parents_left > 1)
        /\ pairs_owed' = pairs_owed - 1
        /\ NextParent(AfterFailedDiff(parents_left))
    /\ UNCHANGED <<statusVars, convVars, mainVars,
                   total_commits, diffs_left, file_sizes, history, observed,
                   attrVars, scanVars, runVars, pushVars>>

\* commit.diff(parent) returns a diff of some entries.
DiffSucceeds ==
    /\ hist_pc = "parents"
    /\ pairs_owed' = pairs_owed - 1
    /\ \E n \in 0..MaxDiffs :
        /\ diffs_left' = n
        /\ IF n = 0
           THEN NextParent(parents_left - 1)
           ELSE hist_pc' = "diffs" /\ UNCHANGED <<commit_i, parents_left>>
    /\ UNCHANGED <<statusVars, convVars, mainVars,
                   total_commits, file_sizes, history, observed, kept, resumed,
                   attrVars, scanVars, runVars, pushVars>>

\* One entry of the diff is examined.
DiffEntry ==
    /\ hist_pc = "diffs"
    /\ \E a, b \in Blobs(size_threshold_mb * 1024 * 1024) \cup {NoBlob} :
        /\ file_sizes' = RecordDiff(file_sizes, a, b, commit_i, size_threshold_mb * 1024 * 1024)
        /\ observed' = observed \cup Read(a) \cup (IF BSideRead(a) THEN Read(b) ELSE {})
    /\ diffs_left' = diffs_left - 1
    /\ IF diffs_left = 1
       THEN NextParent(parents_left - 1)
       ELSE UNCHANGED <<commit_i, parents_left, hist_pc>>
    /\ UNCHANGED <<statusVars, convVars, mainVars,
                   total_commits, history, kept, pairs_owed, resumed, attrVars, scanVars, runVars, pushVars>>

\* After the last commit the dict becomes the sorted list.
ReturnLargeFiles ==
    /\ hist_pc = "commits"
    /\ commit_i = total_commits
    /\ history' = LargeFilesList(file_sizes)
    /\ hist_pc' = "done"
    /\ UNCHANGED <<statusVars, convVars, mainVars,
                   total_commits, commit_i, parents_left, diffs_left, file_sizes, observed,
                   kept, pairs_owed, resumed, attrVars, scanVars, runVars, pushVars>>

InitHist ==
    /\ StatusIdle
    /\ ConvIdle
    /\ MainIdle
    /\ PushIdle
    /\ AttrIdle
    /\ ScanIdle
    /\ RunIdle
    /\ total_commits \in 0..MaxCommits
    /\ commit_i = 0
    /\ parents_left = 0
    /\ diffs_left = 0
    /\ file_sizes = <<>>
    /\ history = <<>>
    /\ hist_pc = "commits"
    /\ observed = {}
    /\ kept = {}
    /\ pairs_owed = 0
    /\ resumed = FALSE

NextHist ==
    \/ RootCommit
    \/ CommitWithParents
    \/ DiffFails
    \/ DiffSucceeds
    \/ DiffEntry
    \/ ReturnLargeFiles

\* One walk over the history of a repository.
SpecHist == InitHist /\ [][NextHist]_vars

\* The kinds of blob
BlobKinds == {k \in KindNames : ObjectKinds[k].objecttype = "blob"}

\* A repository in which the blobs of some kinds were all committed at one
\* path, as the versions of one file, and every other blob at a path of its
\* own.
InitPaths ==
    /\ StatusIdle
    /\ ConvIdle
    /\ MainIdle
    /\ PushIdle
    /\ AttrIdle
    /\ HistIdle
    /\ RunIdle
    /\ size_threshold_mb \in 1..MaxThresholdMb
    /\ repo_objects \in [tree : 0..MaxOther, above : 0..MaxOther,
                          at : 0..MaxOther, below : 0..MaxOther]
    /\ found = [k \in KindNames |-> 0]
    /\ scan_pc = "ready"
    /\ sizer = "not started"
    /\ sizer_out = [k \in KindNames |-> 0]
    /\ shared_path \in SUBSET BlobKinds

\* One scan of a repository that holds several versions of a file.
SpecPaths == InitPaths /\ [][NextScan]_vars

\* Both scans, called with a threshold of 0 MB or more on a repository that
\* holds one object of every kind.
InitThreshold ==
    /\ StatusIdle
    /\ ConvIdle
    /\ MainIdle
    /\ PushIdle
    /\ AttrIdle
    /\ RunIdle
    /\ size_threshold_mb \in 0..MaxThresholdMb
    /\ repo_objects = [k \in KindNames |->
                          IF ObjectSize(k, size_threshold_mb * 1024 * 1024) >= 0 THEN 1 ELSE 0]
    /\ found = [k \in KindNames |-> 0]
    /\ scan_pc = "ready"
    /\ sizer = "not started"
    /\ sizer_out = [k \in KindNames |-> 0]
    /\ shared_path = {}
    /\ total_commits \in 0..MaxCommits
    /\ commit_i = 0
    /\ parents_left = 0
    /\ diffs_left = 0
    /\ file_sizes = <<>>
    /\ history = <<>>
    /\ hist_pc = "commits"
    /\ observed = {}
    /\ kept = {}
    /\ pairs_owed = 0
    /\ resumed = FALSE

NextThreshold == NextScan \/ NextHist

SpecThreshold == InitThreshold /\ [][NextThreshold]_vars

----------------------------------------------------------------------------
(* GitLFS._run_command *)

\* The return codes of a child that failed
NonZeroCodes == {1, 128}

\* The tuple handed back, of which the code is kept
Returned(code) == [kind |-> "returned", code |-> code]

\* An exception leaving _run_command
Raised == [kind |-> "raised", code |-> 0]

\* for attempt in range(retry_count)
Range_(count) == 0..(count - 1)

\* No return code counts as a success
NeverSuccessful(returncode) == FALSE

\* if process.returncode == 0: return
Successful(returncode) == returncode = 0

\* The lines collected from a child that printed one line, or none: when
\* streaming, each line read is appended to stdout_lines; otherwise the
\* output of the child replaces the list.
Collect(lines, streaming, printed, n) ==
    IF streaming
    THEN IF printed THEN Append(lines, n) ELSE lines
    ELSE IF printed THEN <<n>> ELSE <<>>

\* The child runs to its end and exits with returncode.
AttemptExits ==
    /\ run_pc = "loop"
    /\ attempt \in Range_(retry_count)
    /\ \E printed \in BOOLEAN :
        stdout_lines' = Collect(stdout_lines, stream_output, printed, attempt)
    /\ \E returncode \in {0} \cup NonZeroCodes :
        /\ process' = [bound |-> TRUE, returncode |-> returncode]
        /\ outcomes' = Append(outcomes, IF returncode = 0 THEN "exit 0" ELSE "exit non-zero")
        /\ IF Successful(returncode)
           THEN run_result' = Returned(returncode) /\ run_pc' = "done" /\ attempt' = attempt
           ELSE attempt' = attempt + 1 /\ UNCHANGED <<run_result, run_pc>>
    /\ UNCHANGED <<statusVars, convVars, mainVars,
                   retry_count, stream_output, timeout, attrVars, scanVars, histVars, pushVars>>

\* subprocess.Popen raises: the child did not start.
AttemptFailsToStart ==
    /\ run_pc = "loop"
    /\ attempt \in Range_(retry_count)
    /\ outcomes' = Append(outcomes, "not started")
    /\ IF attempt < retry_count - 1
       THEN attempt' = attempt + 1 /\ UNCHANGED <<run_result, run_pc>>
       ELSE run_result' = Returned(-1) /\ run_pc' = "done" /\ attempt' = attempt
    /\ UNCHANGED <<statusVars, convVars, mainVars,
                   retry_count, stream_output, timeout, process, stdout_lines,
                   attrVars, scanVars, histVars, pushVars>>

\* The child runs longer than the timeout: it is terminated.
AttemptTimesOut ==
    /\ run_pc = "loop"
    /\ attempt \in Range_(retry_count)
    /\ timeout
    /\ process' = [bound |-> TRUE, returncode |-> 0 - 15]
    /\ outcomes' = Append(outcomes, "timed out")
    /\ \E printed \in BOOLEAN :
        stdout_lines' = IF stream_output
                        THEN Collect(stdout_lines, stream_output, printed, attempt)
                        ELSE stdout_lines
    /\ run_result' = Returned(-1)
    /\ run_pc' = "done"
    /\ UNCHANGED <<statusVars, convVars, mainVars,
                   retry_count, stream_output, timeout, attempt, attrVars, scanVars, histVars, pushVars>>

\* The loop is over: return process.returncode, ...
RetriesExhausted ==
    /\ run_pc = "loop"
    /\ attempt \notin Range_(retry_count)
    /\ run_result' = IF process.bound THEN Returned(process.returncode) ELSE Raised
    /\ run_pc' = "done"
    /\ UNCHANGED <<statusVars, convVars, mainVars,
                   retry_count, stream_output, timeout, attempt, process, outcomes,
                   stdout_lines, attrVars, scanVars, histVars, pushVars>>

InitRun ==
    /\ StatusIdle
    /\ ConvIdle
    /\ MainIdle
    /\ PushIdle
    /\ AttrIdle
    /\ ScanIdle
    /\ HistIdle
    /\ retry_count \in 0..MaxRetryCount
    /\ stream_output \in BOOLEAN
    /\ timeout \in BOOLEAN
    /\ attempt = 0
    /\ process = [bound |-> FALSE, returncode |-> 0]
    /\ outcomes = <<>>
    /\ stdout_lines = <<>>
    /\ run_result = [kind |-> "none", code |-> 0]
    /\ run_pc = "loop"

NextRun ==
    \/ AttemptExits
    \/ AttemptFailsToStart
    \/ AttemptTimesOut
    \/ RetriesExhausted

\* One call of _run_command.
SpecRun == InitRun /\ [][NextRun]_vars

----------------------------------------------------------------------------
(* GitLFS.__init__ and GitLFS.push *)

\* The entries of configs in optimize_for_large_repo
ConfigCount == 15

\* What a command gave: 0 or a non-zero code
Codes == {0, 1}

\* The command was issued and gave code.
Issue(command, code, count) ==
    /\ failed' = IF code = 0 THEN failed ELSE failed \cup {command}
    /\ issued' = issued + count

\* The command is put in the list of commands, with the branch and the batch
\* it is for (0 when it is for none).
Log(command, code, branch, batch) ==
    commands' = Append(commands, [command |-> command, code |-> code,
                                  branch |-> branch, batch |-> batch])

\* GitLFS(repo_path): a missing .git is logged as a warning.
init ==
    /\ push_pc = "new"
    /\ push_pc' = "constructed"
    /\ UNCHANGED <<statusVars, convVars, mainVars,
                   has_git, batch_size, local_branches, branches, batch_i, batch_j,
                   commands, pushed, success, failed, issued, push_result,
                   attrVars, scanVars, histVars, runVars>>

\* push(remote, force, batch_size) is called.
push ==
    /\ push_pc = "constructed"
    /\ push_pc' = "optimize"
    /\ UNCHANGED <<statusVars, convVars, mainVars,
                   has_git, batch_size, local_branches, branches, batch_i, batch_j,
                   commands, pushed, success, failed, issued, push_result,
                   attrVars, scanVars, histVars, runVars>>

\* push: self.optimize_for_large_repo(), of which the result is dropped
push_optimize ==
    /\ push_pc = "optimize"
    /\ \E code \in Codes : Issue("config", code, ConfigCount) /\ Log("config", code, 0, 0)
    /\ push_pc' = "is_lfs_installed"
    /\ UNCHANGED <<statusVars, convVars, mainVars,
                   has_git, batch_size, local_branches, branches, batch_i, batch_j,
                   pushed, success, push_result, attrVars, scanVars, histVars, runVars>>

\* push: if not self.is_lfs_installed(): return False
push_is_lfs_installed ==
    /\ push_pc = "is_lfs_installed"
    /\ \E code \in Codes :
        /\ Issue("lfs version", code, 1)
        /\ Log("lfs version", code, 0, 0)
        /\ IF code # 0
           THEN push_result' = "False" /\ push_pc' = "returned"
           ELSE push_result' = push_result /\ push_pc' = "lfs push"
    /\ UNCHANGED <<statusVars, convVars, mainVars,
                   has_git, batch_size, local_branches, branches, batch_i, batch_j,
                   pushed, success, attrVars, scanVars, histVars, runVars>>

\* A failed push of the LFS objects that is not seen
LfsPushNeverFailed(code) == FALSE

\* if code != 0, after git lfs push
LfsPushFailed(code) == code # 0

\* push: git lfs push --all; a failure returns False
push_lfs_objects ==
    /\ push_pc = "lfs push"
    /\ \E code \in Codes :
        /\ Issue("lfs push", code, 1)
        /\ Log("lfs push", code, 0, 0)
        /\ IF LfsPushFailed(code)
           THEN push_result' = "False" /\ push_pc' = "returned"
           ELSE /\ push_result' = push_result
                /\ push_pc' = IF batch_size > 0 THEN "branch" ELSE "push --all"
    /\ UNCHANGED <<statusVars, convVars, mainVars,
                   has_git, batch_size, local_branches, branches, batch_i, batch_j,
                   pushed, success, attrVars, scanVars, histVars, runVars>>

\* push in batch mode: branches = self.get_branch_list(include_remote=False),
\* which is [] when git branch fails
push_get_branch_list ==
    /\ push_pc = "branch"
    /\ \E code \in Codes :
        /\ Issue("branch", code, 1)
        /\ Log("branch", code, 0, 0)
        /\ branches' = IF code # 0 THEN <<>> ELSE [n \in 1..local_branches |-> n]
        /\ push_pc' = IF code # 0 \/ local_branches = 0 THEN "push --tags" ELSE "push branch"
    /\ success' = TRUE
    /\ batch_i' = 0
    /\ batch_j' = 0
    /\ UNCHANGED <<statusVars, convVars, mainVars,
                   has_git, batch_size, local_branches, pushed, push_result,
                   attrVars, scanVars, histVars, runVars>>

\* A failed push ends the loops over the batches and their branches
StopAtFailedBranch(code, i, j, n, size) ==
    IF code # 0
    THEN <<n, 0>>
    ELSE IF j + 1 < Min(size, n - i) THEN <<i, j + 1>> ELSE <<i + size, 0>>

\* for i in range(0, len(branches), batch_size): for branch in
\* branches[i:i+batch_size]: the i and the place in the batch that follow,
\* whatever the code of the push
NextInBatch(code, i, j, n, size) ==
    IF j + 1 < Min(size, n - i) THEN <<i, j + 1>> ELSE <<i + size, 0>>

\* push in batch mode: one branch is pushed; a failure clears success
push_branch ==
    /\ push_pc = "push branch"
    /\ \E code \in Codes :
        /\ Issue("push branch", code, 1)
        /\ Log("push branch", code, branches[batch_i + batch_j + 1],
               (batch_i \div batch_size) + 1)
        /\ success' = IF code # 0 THEN FALSE ELSE success
        /\ pushed' = IF code # 0 THEN pushed ELSE pushed + 1
        /\ LET next == NextInBatch(code, batch_i, batch_j, Len(branches), batch_size)
           IN  /\ batch_i' = next[1]
               /\ batch_j' = next[2]
               /\ push_pc' = IF next[1] >= Len(branches) THEN "push --tags" ELSE "push branch"
    /\ UNCHANGED <<statusVars, convVars, mainVars,
                   has_git, batch_size, local_branches, branches, push_result,
                   attrVars, scanVars, histVars, runVars>>

\* push, all branches at once: git push --all; a failure is logged
push_all_branches ==
    /\ push_pc = "push --all"
    /\ \E code \in Codes : Issue("push --all", code, 1) /\ Log("push --all", code, 0, 0)
    /\ push_pc' = "push --tags"
    /\ UNCHANGED <<statusVars, convVars, mainVars,
                   has_git, batch_size, local_branches, branches, batch_i, batch_j,
                   pushed, success, push_result, attrVars, scanVars, histVars, runVars>>

\* push: git push --tags; a failure returns False, success returns True
push_tags ==
    /\ push_pc = "push --tags"
    /\ \E code \in Codes :
        /\ Issue("push --tags", code, 1)
        /\ Log("push --tags", code, 0, 0)
        /\ push_result' = IF code # 0 THEN "False" ELSE "True"
    /\ push_pc' = "returned"
    /\ UNCHANGED <<statusVars, convVars, mainVars,
                   has_git, batch_size, local_branches, branches, batch_i, batch_j,
                   pushed, success, attrVars, scanVars, histVars, runVars>>

InitPush ==
    /\ StatusIdle
    /\ ConvIdle
    /\ MainIdle
    /\ AttrIdle
    /\ ScanIdle
    /\ HistIdle
    /\ RunIdle
    /\ has_git \in BOOLEAN
    /\ batch_size \in 0..MaxBatchSize
    /\ local_branches \in 0..MaxBranches
    /\ branches = <<>>
    /\ batch_i = 0
    /\ batch_j = 0
    /\ commands = <<>>
    /\ pushed = 0
    /\ success = TRUE
    /\ failed = {}
    /\ issued = 0
    /\ push_result = "none"
    /\ push_pc = "new"

NextPush ==
    \/ init
    \/ push
    \/ push_optimize
    \/ push_is_lfs_installed
    \/ push_lfs_objects
    \/ push_get_branch_list
    \/ push_branch
    \/ push_all_branches
    \/ push_tags

\* An object is made for a repository root and push is called on it once.
SpecPush == InitPush /\ [][NextPush]_vars

\* ---------------------------------------------------------------------
\* GitLFS.status
\* ---------------------------------------------------------------------

TRACKED == "Tracked files:"
NOT_TRACKED == "Objects not tracked by Git LFS:"
PAREN == "("

\* Lines git lfs status may print: blank, headers (bare, indented, followed
\* by text), notes in parentheses, paths, and a path that holds the text of a
\* header after its start.
StatusLines ==
    { <<SP>>, <<TRACKED>>, <<SP, NOT_TRACKED>>, <<TRACKED, "f">>, <<"f">>,
      <<SP, "g", SP>>, <<"f", TRACKED>>, <<PAREN, "f">>, <<SP, PAREN>>, <<NOT_TRACKED>> }

\* Every text of at most MaxStatusLines lines.
StatusTexts ==
    UNION {[1..n -> StatusLines] : n \in 0..MaxStatusLines}

\* str.startswith, for a prefix that is one token
startswith(line, prefix) == Len(line) > 0 /\ line[1] = prefix

\* A line that is never taken for a note
NeverNote(line) == FALSE

\* line.startswith("(")
IsNote(line) == startswith(line, PAREN)

\* return {}
EmptyDict ==
    [returned |-> TRUE, keys |-> {}, tracked_files |-> <<>>, not_tracked |-> <<>>]

\* The loop of status over stdout.splitlines(), from the lines left, the
\* current section and the dictionary so far.
RECURSIVE StatusLoop(_, _, _)
StatusLoop(lines, current_section, status) ==
    IF lines = <<>>
    THEN status
    ELSE LET line == Strip(Head(lines))
             rest == Tail(lines)
         IN  IF line = <<>>
             THEN StatusLoop(rest, current_section, status)
             ELSE IF startswith(line, TRACKED)
             THEN StatusLoop(rest, "tracked_files", status)
             ELSE IF startswith(line, NOT_TRACKED)
             THEN StatusLoop(rest, "not_tracked", status)
             ELSE IF current_section # "None" /\ ~IsNote(line)
             THEN StatusLoop(rest, current_section,
                             [status EXCEPT ![current_section] = Append(@, line)])
             ELSE StatusLoop(rest, current_section, status)

\* GitLFS.status(): {} when the command fails, else the two lists
status ==
    /\ ~status_result.returned
    /\ \E code \in Codes :
        /\ status_code' = code
        /\ status_result' =
              IF code # 0
              THEN EmptyDict
              ELSE StatusLoop(status_stdout, "None",
                              [returned |-> TRUE, keys |-> {"tracked_files", "not_tracked"},
                               tracked_files |-> <<>>, not_tracked |-> <<>>])
    /\ UNCHANGED <<status_stdout, attrVars, scanVars, histVars, runVars, pushVars,
                   convVars, mainVars>>

InitStatus ==
    /\ AttrIdle
    /\ ScanIdle
    /\ HistIdle
    /\ RunIdle
    /\ PushIdle
    /\ ConvIdle
    /\ MainIdle
    /\ status_stdout \in StatusTexts
    /\ status_code = 0
    /\ status_result = NotReturned

NextStatus == status

\* git lfs status prints any text, and status is called.
SpecStatus == InitStatus /\ [][NextStatus]_vars

\* ---------------------------------------------------------------------
\* convert_files_to_lfs of the migration script
\* ---------------------------------------------------------------------

\* A dictionary is the sequence of its items, in the order of insertion.
Keys(d) == {d[k].key : k \in 1..Len(d)}

\* d[key]
DictGet(d, key) == (CHOOSE item \in {d[k] : k \in 1..Len(d)} : item.key = key).files

\* d[key] = value: a key that is there keeps its place
DictSet(d, key, value) ==
    IF key \in Keys(d)
    THEN [k \in 1..Len(d) |->
             IF d[k].key = key THEN [key |-> key, files |-> value] ELSE d[k]]
    ELSE Append(d, [key |-> key, files |-> value])

\* The loop that groups the files: under its extension a file with one,
\* under its own path a file without.
RECURSIVE GroupByExtension(_, _)
GroupByExtension(files, d) ==
    IF files = <<>>
    THEN d
    ELSE LET file_path == Head(files).path
             ext == splitext(file_path)[2]
         IN  GroupByExtension(Tail(files),
                 IF ext # <<>>
                 THEN LET with_key == IF ext \in Keys(d) THEN d ELSE DictSet(d, ext, <<>>)
                      IN  DictSet(with_key, ext, Append(DictGet(with_key, ext), file_path))
                 ELSE DictSet(d, file_path, <<file_path>>))

\* The pattern handed to migrate_import for a key of the dictionary.
MigratePattern(pattern) ==
    IF startswith(pattern, ".") THEN <<"*">> \o pattern ELSE pattern

\* A call of convert_files_to_lfs on the GitLFS object is put in the list.
ConvCall(call, pattern, code) ==
    conv_calls' = Append(conv_calls, [call |-> call, pattern |-> pattern, code |-> code])

\* convert_files_to_lfs(lfs, repo_path, large_files) is called.
convert_files_to_lfs ==
    /\ conv_pc = "idle"
    /\ conv_pc' = "is_lfs_installed"
    /\ UNCHANGED <<extensions, converted_patterns, failed_patterns, conv_success,
                   conv_calls, conv_result,
                   attrVars, scanVars, histVars, runVars, pushVars, statusVars, mainVars>>

\* if not lfs.is_lfs_installed()
conv_is_lfs_installed ==
    /\ conv_pc = "is_lfs_installed"
    /\ \E code \in Codes :
        /\ ConvCall("is_lfs_installed", <<>>, code)
        /\ conv_pc' = IF code # 0 THEN "install_lfs" ELSE "fetch"
    /\ UNCHANGED <<extensions, converted_patterns, failed_patterns, conv_success,
                   conv_result,
                   attrVars, scanVars, histVars, runVars, pushVars, statusVars, mainVars>>

\* if not lfs.install_lfs(): return False, lfs
conv_install_lfs ==
    /\ conv_pc = "install_lfs"
    /\ \E code \in Codes :
        /\ ConvCall("install_lfs", <<>>, code)
        /\ IF code # 0
           THEN conv_result' = "False" /\ conv_pc' = "returned"
           ELSE conv_result' = conv_result /\ conv_pc' = "fetch"
    /\ UNCHANGED <<extensions, converted_patterns, failed_patterns, conv_success,
                   attrVars, scanVars, histVars, runVars, pushVars, statusVars, mainVars>>

\* The files are grouped, and git lfs fetch --all is run: its failure is a
\* warning.
conv_fetch ==
    /\ conv_pc = "fetch"
    /\ extensions' = GroupByExtension(large_files, <<>>)
    /\ conv_success' = TRUE
    /\ converted_patterns' = <<>>
    /\ failed_patterns' = <<>>
    /\ \E code \in Codes : ConvCall("fetch", <<>>, code)
    /\ conv_pc' = IF extensions' = <<>> THEN "status" ELSE "migrate"
    /\ UNCHANGED <<conv_result,
                   attrVars, scanVars, histVars, runVars, pushVars, statusVars, mainVars>>

\* One turn of the loop over extensions.items(): migrate_import for the
\* pattern of the key; a failure clears success and the loop goes on.
conv_migrate ==
    /\ conv_pc = "migrate"
    /\ LET n == Len(converted_patterns) + Len(failed_patterns) + 1
           migrate_pattern == MigratePattern(extensions[n].key)
       IN  /\ \E code \in Codes :
                /\ ConvCall("migrate_import", migrate_pattern, code)
                /\ IF code = 0
                   THEN /\ converted_patterns' = Append(converted_patterns, migrate_pattern)
                        /\ UNCHANGED <<failed_patterns, conv_success>>
                   ELSE /\ failed_patterns' = Append(failed_patterns, migrate_pattern)
                        /\ conv_success' = FALSE
                        /\ UNCHANGED converted_patterns
           /\ conv_pc' = IF n = Len(extensions) THEN "status" ELSE "migrate"
    /\ UNCHANGED <<extensions, conv_result,
                   attrVars, scanVars, histVars, runVars, pushVars, statusVars, mainVars>>

\* status = lfs.status(), which is printed
conv_status ==
    /\ conv_pc = "status"
    /\ \E code \in Codes : ConvCall("status", <<>>, code)
    /\ conv_pc' = "fsck"
    /\ UNCHANGED <<extensions, converted_patterns, failed_patterns, conv_success,
                   conv_result,
                   attrVars, scanVars, histVars, runVars, pushVars, statusVars, mainVars>>

\* git lfs fsck, of which the failure is a warning; return success, lfs
conv_fsck ==
    /\ conv_pc = "fsck"
    /\ \E code \in Codes : ConvCall("fsck", <<>>, code)
    /\ conv_result' = IF conv_success THEN "True" ELSE "False"
    /\ conv_pc' = "returned"
    /\ UNCHANGED <<extensions, converted_patterns, failed_patterns, conv_success,
                   attrVars, scanVars, histVars, runVars, pushVars, statusVars, mainVars>>

InitConvert ==
    /\ ScanIdle
    /\ HistIdle
    /\ RunIdle
    /\ PushIdle
    /\ StatusIdle
    /\ ConvIdle
    /\ MainIdle
    /\ gitattributes = <<>>
    /\ gitattributes_exists = FALSE
    /\ large_files \in RecordLists
    /\ new_patterns = {}
    /\ derived = <<>>
    /\ before = <<>>
    /\ op = "none"
    /\ returned = "none"
    /\ io_error = FALSE

NextConvert ==
    \/ convert_files_to_lfs
    \/ conv_is_lfs_installed
    \/ conv_install_lfs
    \/ conv_fetch
    \/ conv_migrate
    \/ conv_status
    \/ conv_fsck

\* convert_files_to_lfs is called with any list of large files.
SpecConvert == InitConvert /\ [][NextConvert]_vars

\* ---------------------------------------------------------------------
\* The main sequence of the migration script
\* ---------------------------------------------------------------------

\* lfs_handler = GitLFS(repo_path=SOURCE_REPO_PATH)
main_GitLFS ==
    /\ main_pc = "GitLFS"
    /\ init

\* large_files = find_large_files_in_history(SOURCE_REPO_PATH, 1), which
\* raises when the repository cannot be opened, and if large_files:
main_find_large_files_in_history ==
    /\ main_pc = "GitLFS"
    /\ push_pc = "constructed"
    /\ steps' = Append(steps, "scan")
    /\ \E raises \in BOOLEAN, files \in ShortRecordLists :
        IF raises
        THEN /\ main_pc' = "raised"
             /\ UNCHANGED large_files
        ELSE /\ large_files' = files
             /\ main_pc' = IF files # <<>> THEN "if large_files" ELSE "done"
    /\ UNCHANGED <<gitattributes, gitattributes_exists, new_patterns, derived, before, op,
                   returned, io_error,
                   scanVars, histVars, runVars, pushVars, statusVars, convVars>>

\* create_gitattributes_for_large_files(SOURCE_REPO_PATH, large_files) is called
main_create_gitattributes_for_large_files ==
    /\ main_pc = "if large_files"
    /\ steps' = Append(steps, "attributes")
    /\ main_pc' = "create_gitattributes_for_large_files"
    /\ UNCHANGED <<attrVars, scanVars, histVars, runVars, pushVars, statusVars, convVars>>

\* The .gitattributes file is updated.
main_attributes ==
    /\ main_pc = "create_gitattributes_for_large_files"
    /\ op = "none"
    /\ create_gitattributes_for_large_files(
           large_files, ExistingPatterns(gitattributes_exists, gitattributes))

\* conversion_success, _ = convert_files_to_lfs(...) is called
main_convert_files_to_lfs ==
    /\ main_pc = "create_gitattributes_for_large_files"
    /\ op # "none"
    /\ steps' = Append(steps, "conversion")
    /\ main_pc' = "convert_files_to_lfs"
    /\ UNCHANGED <<attrVars, scanVars, histVars, runVars, pushVars, statusVars, convVars>>

\* The conversion runs.
main_conversion ==
    /\ main_pc = "convert_files_to_lfs"
    /\ NextConvert

\* A conversion that is always taken for a success
ConversionAlwaysSucceeded(result) == TRUE

\* if conversion_success:
ConversionSucceeded(result) == result = "True"

\* if conversion_success: lfs_handler.push(remote=TARGET_REPO_URL, force=True)
\* is called, else the push is cancelled
main_if_conversion_success ==
    /\ main_pc = "convert_files_to_lfs"
    /\ conv_pc = "returned"
    /\ IF ConversionSucceeded(conv_result)
       THEN steps' = Append(steps, "push") /\ main_pc' = "push"
       ELSE steps' = steps /\ main_pc' = "done"
    /\ UNCHANGED <<attrVars, scanVars, histVars, runVars, pushVars, statusVars, convVars>>

\* The push runs, with batch_size left 0: all branches at once.
main_push ==
    /\ main_pc = "push"
    /\ \/ push
       \/ push_optimize
       \/ push_is_lfs_installed
       \/ push_lfs_objects
       \/ push_all_branches
       \/ push_tags

\* if push_success: the outcome is printed
main_if_push_success ==
    /\ main_pc = "push"
    /\ push_pc = "returned"
    /\ main_pc' = "done"
    /\ UNCHANGED <<steps,
                   attrVars, scanVars, histVars, runVars, pushVars, statusVars, convVars>>

InitMain ==
    /\ ScanIdle
    /\ HistIdle
    /\ RunIdle
    /\ StatusIdle
    /\ ConvIdle
    /\ gitattributes \in InitContents
    /\ gitattributes_exists \in (IF gitattributes = <<>> THEN BOOLEAN ELSE {TRUE})
    /\ large_files = <<>>
    /\ new_patterns = {}
    /\ derived = <<>>
    /\ before = <<>>
    /\ op = "none"
    /\ returned = "none"
    /\ io_error = FALSE
    /\ has_git \in BOOLEAN
    /\ batch_size = 0
    /\ local_branches = 0
    /\ branches = <<>>
    /\ batch_i = 0
    /\ batch_j = 0
    /\ commands = <<>>
    /\ pushed = 0
    /\ success = TRUE
    /\ failed = {}
    /\ issued = 0
    /\ push_result = "none"
    /\ push_pc = "new"
    /\ steps = <<>>
    /\ main_pc = "GitLFS"

NextMain ==
    \/ main_GitLFS
    \/ main_find_large_files_in_history
    \/ main_create_gitattributes_for_large_files
    \/ main_attributes
    \/ main_convert_files_to_lfs
    \/ main_conversion
    \/ main_if_conversion_success
    \/ main_push
    \/ main_if_push_success

\* One run of the script.
SpecMain == InitMain /\ [][NextMain]_vars

----------------------------------------------------------------------------
(* What the claims speak of *)

\* The patterns a text holds LFS entries for: on each line, the stripped text
\* before a "filter=lfs" that follows white space.
TrackedOnLine(line) ==
    {Strip(SubSeq(line, 1, j - 1)) :
        j \in {i \in 2..Len(line) : line[i] = FILTER /\ IsSpace(line[i - 1])}}

TrackedPatterns(content) ==
    UNION {TrackedOnLine(LineFrom(content, k)) : k \in LineStarts(content)}

\* No pattern has an LFS entry on two lines.
NoPatternTwice(content) ==
    \A k1, k2 \in LineStarts(content) :
        k1 # k2 =>
            TrackedOnLine(LineFrom(content, k1))
                \cap TrackedOnLine(LineFrom(content, k2)) = {}

\* The text the last call put after the content it found.
Appended == SubSeq(gitattributes, Len(before) + 1, Len(gitattributes))

IsPrefix(s, t) == Len(s) <= Len(t) /\ SubSeq(t, 1, Len(s)) = s

EndsWith(s, t) == Len(t) <= Len(s) /\ SubSeq(s, Len(s) - Len(t) + 1, Len(s)) = t

\* The directory part of a path: the text before its last slash.
DirectoryOf(path) ==
    LET slashes == {i \in 1..Len(path) : path[i] = "/"}
    IN  IF slashes = {} THEN <<>> ELSE SubSeq(path, 1, SetMax(slashes) - 1)

\* The extensions of a path (one or none): the text after a dot of the file
\* name that no dot follows and that a character other than a dot precedes.
ExtensionsOf(path) ==
    {SubSeq(path, i + 1, Len(path)) :
        i \in {d \in 1..Len(path) :
                /\ path[d] = "."
                /\ \A j \in (d + 1)..Len(path) : path[j] \notin {".", "/"}
                /\ \E j \in 1..(d - 1) :
                      /\ path[j] # "."
                      /\ \A l \in j..(d - 1) : path[l] # "/"}}

\* A glob with one star, or a literal path, matches the path: the star
\* stands for any text without a slash, and a glob without a slash is
\* matched against the file name.
Matches(pattern, path) ==
    \/ pattern = path
    \/ \E i \in 1..Len(pattern) :
          /\ pattern[i] = "*"
          /\ LET prefix == SubSeq(pattern, 1, i - 1)
                 suffix == SubSeq(pattern, i + 1, Len(pattern))
                 target == IF "/" \in Range(pattern)
                           THEN path
                           ELSE SubSeq(path, Len(DirectoryOf(path))
                                             + (IF "/" \in Range(path) THEN 2 ELSE 1),
                                       Len(path))
             IN  /\ Len(prefix) + Len(suffix) <= Len(target)
                 /\ IsPrefix(prefix, target)
                 /\ EndsWith(target, suffix)
                 /\ \A j \in (Len(prefix) + 1)..(Len(target) - Len(suffix)) :
                        target[j] # "/"

LibraryRan == op = "create_gitattributes"

----------------------------------------------------------------------------
(* Claims *)

\* C1: a second run of GitLFS.create_gitattributes with the same records
\* leaves .gitattributes as the first run left it.
C1_SecondRunAppendsNothing ==
    [][(LibraryRan /\ op' = "create_gitattributes" /\ large_files' = large_files
            /\ before' = gitattributes)
        => gitattributes' = gitattributes]_vars

\* C2: a run appends, after at most a separating newline, exactly the
\* attribute lines of the candidates that have no entry in the file yet, one
\* line each, in ascending order.
C2_AppendsExactlyTheMissing ==
    LibraryRan =>
        LET missing == Ascending(new_patterns \ TrackedPatterns(before))
            lines == Concat([k \in 1..Len(missing) |-> AttributeLine(missing[k])])
        IN  \/ Appended = lines
            \/ lines # <<>> /\ Appended = <<NL>> \o lines

\* C3: every run of either synthesizer keeps the content it found as a
\* prefix of the new content.
C3_AppendOnly == [][IsPrefix(gitattributes, gitattributes')]_vars

C3_Witness ==
    /\ op = "create_gitattributes_for_large_files"
    /\ before # <<>>
    /\ Len(gitattributes) > Len(before) + 1

\* C4: a file in which no pattern has two entries stays such a file under
\* runs of GitLFS.create_gitattributes.
C4_NoPatternTwice ==
    [][NoPatternTwice(gitattributes) => NoPatternTwice(gitattributes')]_vars

\* C5: after a run the file holds, for every record, an entry whose pattern
\* matches the record's path.
C5_EveryRecordTracked ==
    LibraryRan =>
        \A k \in 1..Len(large_files) :
            \E p \in TrackedPatterns(gitattributes) : Matches(p, large_files[k].path)

\* C6: a record whose file name has an extension gives exactly *.<ext> and,
\* in a directory, <directory>/*.<ext>.
C6_ExtensionCandidates ==
    LibraryRan =>
        \A k \in 1..Len(large_files) :
            \A ext \in ExtensionsOf(large_files[k].path) :
                LET dir == DirectoryOf(large_files[k].path)
                IN  derived[k] =
                        {<<"*", ".">> \o ext}
                        \cup (IF dir # <<>>
                              THEN {dir \o <<"/", "*", ".">> \o ext}
                              ELSE {})

C6_Witness ==
    /\ LibraryRan
    /\ \E k \in 1..Len(large_files) :
          /\ large_files[k].path = <<"d", "/", "b", "/", "a", ".", "m">>
          /\ derived[k] = {<<"*", ".", "m">>, <<"d", "/", "b", "/", "*", ".", "m">>}
    /\ \E k \in 1..Len(large_files) :
          /\ large_files[k].path = <<"a", ".", "m">>
          /\ derived[k] = {<<"*", ".", "m">>}

\* C7: a record whose file name has no extension gives exactly its path.
C7_LiteralPathCandidate ==
    LibraryRan =>
        \A k \in 1..Len(large_files) :
            ExtensionsOf(large_files[k].path) = {}
                => derived[k] = {large_files[k].path}

C7_Witness ==
    /\ LibraryRan
    /\ \E k \in 1..Len(large_files) :
          /\ large_files[k].path = <<"d", "/", "a">>
          /\ derived[k] = {<<"d", "/", "a">>}

\* C8: the scan returns a record for every blob at or above the threshold
\* and none for a blob below it.
C8_EveryLargeBlobReturned ==
    scan_pc = "done" =>
        \A k \in KindNames :
            ObjectKinds[k].objecttype = "blob" =>
                found[k] = IF ObjectSize(k, (size_threshold_mb * 1024 * 1024)) >= (size_threshold_mb * 1024 * 1024)
                           THEN repo_objects[k]
                           ELSE 0

\* C9: the list the walk returns holds at most one record per path, and the
\* size of a record is the largest size the walk read for its path.
C9_OneRecordOfMaximumSize ==
    hist_pc = "done" =>
        /\ \A j, k \in 1..Len(history) : j # k => history[j].path # history[k].path
        /\ \A k \in 1..Len(history) :
              history[k].size_mb =
                  size_mb(SetMax({ o[2] : o \in { x \in observed : x[1] = history[k].path } }))

\* A path was read at two sizes above the threshold and is in the list.
C9_Witness ==
    /\ hist_pc = "done"
    /\ \E k \in 1..Len(history) :
          \E x, y \in observed :
              /\ x[1] = history[k].path /\ y[1] = history[k].path
              /\ x[2] > y[2] /\ y[2] > size_threshold_mb * 1024 * 1024

\* C10: a failed diff does not end the walk: every pair of a commit and a
\* parent is tried, every commit is visited, and a path recorded when the
\* diff failed is in the list.
C10_FailedDiffIsSkipped ==
    hist_pc = "done" =>
        /\ commit_i = total_commits
        /\ pairs_owed = 0
        /\ kept \subseteq { history[k].path : k \in 1..Len(history) }

\* A diff failed with a path recorded and a parent still to diff, and a
\* later commit added to the list.
C10_Witness ==
    /\ hist_pc = "done"
    /\ resumed
    /\ kept # {}
    /\ \E k \in 1..Len(history) : history[k].path \notin kept

\* C11: whatever the child does, _run_command returns a tuple, whose code is
\* zero only when the child exited with 0, and raises nothing.
C11_ReturnsAndNeverRaises ==
    run_pc = "done" =>
        /\ run_result.kind = "returned"
        /\ run_result.code = 0 <=>
               (outcomes # <<>> /\ outcomes[Len(outcomes)] = "exit 0")

\* C18: a command that exits non-zero every time is executed retry_count + 1
\* times.
C18_RetriesAfterTheFirstAttempt ==
    (/\ run_pc = "done"
     /\ outcomes # <<>>
     /\ \A k \in 1..Len(outcomes) : outcomes[k] = "exit non-zero")
        => Len(outcomes) = retry_count + 1

\* C12: push returns True only if the push of the LFS objects, the push of
\* every branch and the push of the tags all succeeded.
C12_TrueOnlyIfAllPushed ==
    push_result = "True" =>
        /\ "lfs push" \notin failed
        /\ "push --tags" \notin failed
        /\ IF batch_size > 0
           THEN pushed = local_branches
           ELSE "push --all" \notin failed

\* C14: on a root without a .git entry no object is made and no command is
\* issued.
C14_NoGitNoCommand ==
    ~has_git => (push_pc = "new" /\ issued = 0)

\* C15: when git-sizer is missing, cannot be started or exits non-zero,
\* find_large_files returns the list of the fallback scan.
C15_FallbackWhenSizerFails ==
    (scan_pc = "done" /\ sizer # "exit 0") =>
        found = ProcessResults(head(repo_objects), size_threshold_mb * 1024 * 1024)

\* git-sizer failed and the scan returned a blob.
C15_Witness ==
    /\ scan_pc = "done"
    /\ sizer \in {"exit non-zero", "not started"}
    /\ found["above"] > 0

\* C13: with a threshold of 0 or less neither scan takes a step: no command
\* is run and no commit is looked at.
C13_NonPositiveThresholdRejected ==
    size_threshold_mb <= 0 =>
        /\ scan_pc = "ready"
        /\ commit_i = 0
        /\ hist_pc \in {"commits", "done"}

\* The size in bytes recorded for a path
BytesOf(path) ==
    LET k == CHOOSE n \in 1..Len(file_sizes) : file_sizes[n].path = path
    IN  file_sizes[k].size

\* Paths in ascending order
PathBefore(a, b) == a = "p" /\ b = "q"

\* C16: the list the walk returns is ordered by size in bytes, largest
\* first, and records of equal size by path, ascending.
C16_OrderedBySizeThenPath ==
    hist_pc = "done" =>
        \A j, k \in 1..Len(history) :
            j < k =>
                \/ BytesOf(history[j].path) > BytesOf(history[k].path)
                \/ /\ BytesOf(history[j].path) = BytesOf(history[k].path)
                   /\ PathBefore(history[j].path, history[k].path)

\* C17: a run of the library that appends starts with a newline exactly when
\* the content it found is not empty and does not end with a newline.
C17_SeparatorOnlyWhenNeeded ==
    (LibraryRan /\ Appended # <<>>) =>
        (Appended[1] = NL <=> (before # <<>> /\ before[Len(before)] # NL))

\* C19: a library call that met an I/O error while appending returns False
\* and leaves the list of records as it was given.
C19_WriteFailureReturnsFalse ==
    (LibraryRan /\ io_error) => returned = "False"

\* C20: a run of the script that finds every pattern it derives in the file
\* leaves the file as it was.
C20_ScriptAppendsNothingWhenAllPresent ==
    (op = "create_gitattributes_for_large_files"
        /\ new_patterns \subseteq TrackedPatterns(before))
        => gitattributes = before

\* The largest size the walk read for a path
LargestRead(path) == SetMax({ o[2] : o \in { x \in observed : x[1] = path } })

\* C21: the walk reports a path exactly when the largest blob it read for
\* the path is at or above the threshold.
C21_ThresholdInclusive ==
    hist_pc = "done" =>
        \A path \in HistPaths :
            (\E k \in 1..Len(history) : history[k].path = path)
                <=> /\ \E o \in observed : o[1] = path
                    /\ LargestRead(path) >= size_threshold_mb * 1024 * 1024

\* The records returned for the path that the kinds of shared_path share
RecordsOfSharedPath ==
    LET count[n \in 0..Len(KindsBySize)] ==
            IF n = 0 THEN 0
            ELSE count[n - 1]
                 + (IF KindsBySize[n] \in shared_path THEN found[KindsBySize[n]] ELSE 0)
    IN  count[Len(KindsBySize)]

\* C22: find_large_files returns at most one record for a path at which
\* several blobs were committed.
C22_OneRecordPerPath ==
    scan_pc = "done" => RecordsOfSharedPath <= 1

\* C29: the lines _run_command returns were all printed by the last attempt
\* it made.
C29_OutputOfLastAttemptOnly ==
    (run_pc = "done" /\ run_result.kind = "returned") =>
        \A k \in 1..Len(stdout_lines) : stdout_lines[k] = Len(outcomes) - 1

\* C30: an attempt that exited 0 or timed out is the last one made, a
\* timeout gives the code -1, and the code returned is 0 exactly when the
\* last attempt exited 0.
C30_NoRetryAfterSuccessOrTimeout ==
    /\ \A k \in 1..Len(outcomes) :
          outcomes[k] \in {"exit 0", "timed out"} => (k = Len(outcomes) /\ run_pc = "done")
    /\ (run_pc = "done" /\ run_result.kind = "returned") =>
          /\ run_result.code = 0 <=> outcomes[Len(outcomes)] = "exit 0"
          /\ outcomes[Len(outcomes)] = "timed out" => run_result.code = 0 - 1

\* A first attempt failed, the second timed out with an attempt left, and
\* -1 was returned.
C30_Witness ==
    /\ run_pc = "done"
    /\ Len(outcomes) = 2
    /\ outcomes[2] = "timed out"
    /\ retry_count > 2
    /\ run_result = Returned(0 - 1)

\* The commands that push branches or tags
RefPushes == {"push branch", "push --all", "push --tags"}

\* C23: no branch or tag is pushed before the LFS objects were pushed with
\* success; when LFS is missing or the push of the LFS objects fails, push
\* returns False without pushing a branch or a tag; the tags are pushed after
\* every branch push, failed or not.
C23_LfsFirstTagsLast ==
    /\ \A k \in 1..Len(commands) :
          commands[k].command \in RefPushes =>
              \E j \in 1..(k - 1) : commands[j].command = "lfs push" /\ commands[j].code = 0
    /\ ("lfs version" \in failed \/ "lfs push" \in failed) =>
          /\ push_pc = "returned" /\ push_result = "False"
          /\ \A k \in 1..Len(commands) : commands[k].command \notin RefPushes
    /\ \A k \in 1..Len(commands) :
          commands[k].command = "push --tags" =>
              /\ k = Len(commands)
              /\ IF batch_size > 0
                 THEN Len(SelectSeq(commands, LAMBDA c : c.command = "push branch"))
                          = Len(branches)
                 ELSE \E j \in 1..(k - 1) : commands[j].command = "push --all"

\* The tags were pushed after a branch push that failed.
C23_Witness ==
    /\ push_pc = "returned"
    /\ \E k \in 1..Len(commands) :
          commands[k].command \in {"push branch", "push --all"} /\ commands[k].code # 0
    /\ commands[Len(commands)].command = "push --tags"

\* C26: in batch mode every branch of the list is pushed once, in the order
\* of the list and in batches of batch_size, whether or not a push fails, and
\* the tags are pushed after them.
C26_EveryBranchOnceInOrder ==
    (push_pc = "returned" /\ batch_size > 0
        /\ "lfs version" \notin failed /\ "lfs push" \notin failed) =>
        LET pushes == SelectSeq(commands, LAMBDA c : c.command = "push branch")
        IN  /\ Len(pushes) = Len(branches)
            /\ \A k \in 1..Len(pushes) :
                  /\ pushes[k].branch = branches[k]
                  /\ pushes[k].batch = ((k - 1) \div batch_size) + 1
            /\ commands[Len(commands)].command = "push --tags"

\* Three branches were pushed in batches of two and the push of the first
\* failed.
C26_Witness ==
    /\ push_pc = "returned"
    /\ batch_size = 2
    /\ Len(branches) = 3
    /\ \E k \in 1..Len(commands) :
          /\ commands[k].command = "push branch"
          /\ commands[k].branch = 1
          /\ commands[k].code # 0
    /\ commands[Len(commands)].command = "push --tags"

\* The lines of status_stdout as status reads them, stripped.
StatusLine(k) == Strip(status_stdout[k])

IsHeader(k) == startswith(StatusLine(k), TRACKED) \/ startswith(StatusLine(k), NOT_TRACKED)

\* The section of the last header before line k, "None" when there is none.
LastHeader(k) ==
    LET headers == {j \in 1..(k - 1) : IsHeader(j)}
    IN  IF headers = {} THEN "None"
        ELSE IF startswith(StatusLine(SetMax(headers)), TRACKED) THEN "tracked_files"
        ELSE "not_tracked"

\* The lines that are not blank, not a header and not a note in parentheses.
ContentLines ==
    {k \in 1..Len(status_stdout) :
        StatusLine(k) # <<>> /\ ~IsHeader(k) /\ StatusLine(k)[1] # PAREN}

\* The content lines that follow a header of the section, in order.
LinesOf(section) ==
    LET at == {k \in ContentLines : LastHeader(k) = section}
        nth == [r \in 1..Cardinality(at) |->
                   CHOOSE k \in at : Cardinality({j \in at : j < k}) = r - 1]
    IN  [r \in 1..Cardinality(at) |-> StatusLine(nth[r])]

\* C28: status puts every line that is not blank, not a header and not a
\* note in parentheses in the section of the last header before it and in no
\* other, drops the lines before the first header, and returns an empty
\* dictionary when the command fails.
C28_LinesGoToLastSection ==
    status_result.returned =>
        IF status_code # 0
        THEN status_result.keys = {}
        ELSE /\ status_result.keys = {"tracked_files", "not_tracked"}
             /\ status_result.tracked_files = LinesOf("tracked_files")
             /\ status_result.not_tracked = LinesOf("not_tracked")

\* A line was put in a section, a line before the first header was dropped
\* and so was a note that follows a header.
C28_Witness ==
    /\ status_result.returned
    /\ status_code = 0
    /\ status_result.tracked_files # <<>>
    /\ \E k \in ContentLines : LastHeader(k) = "None"
    /\ \E k \in 1..Len(status_stdout) :
          StatusLine(k) # <<>> /\ StatusLine(k)[1] = PAREN /\ LastHeader(k) # "None"

\* The patterns migrate_import was called with, in order.
Migrated ==
    LET calls == SelectSeq(conv_calls, LAMBDA c : c.call = "migrate_import")
    IN  [k \in 1..Len(calls) |-> calls[k].pattern]

\* Git LFS was not installed and could not be installed.
InstallFailed ==
    \E k \in 1..Len(conv_calls) :
        conv_calls[k].call = "install_lfs" /\ conv_calls[k].code # 0

\* The extensions of the large files that have one.
DistinctExtensions ==
    {splitext(large_files[k].path)[2] : k \in 1..Len(large_files)} \ {<<>>}

\* The paths of the large files that have no extension.
DistinctPlainPaths ==
    {large_files[k].path : k \in {j \in 1..Len(large_files) :
                                      splitext(large_files[j].path)[2] = <<>>}}

\* C25: convert_files_to_lfs calls migrate_import once for each distinct
\* extension and once for each distinct path without extension, goes on
\* after a failed migration, and returns False exactly when a migration
\* failed or Git LFS could not be installed, in which case nothing is
\* migrated.
C25_OneMigrationPerGroup ==
    conv_pc = "returned" =>
        IF InstallFailed
        THEN conv_result = "False" /\ Migrated = <<>>
        ELSE /\ Len(Migrated)
                  = Cardinality(DistinctExtensions) + Cardinality(DistinctPlainPaths)
             /\ (conv_result = "False") <=>
                    (\E k \in 1..Len(conv_calls) :
                        conv_calls[k].call = "migrate_import" /\ conv_calls[k].code # 0)

\* The pattern that stands for a large file: its literal path when it has no
\* extension, the star and the extension when it has one.
PatternFor(path) ==
    LET ext == splitext(path)[2]
    IN  IF ext = <<>> THEN path ELSE <<"*">> \o ext

\* C27: the patterns that convert_files_to_lfs migrates are the literal path
\* of every large file without extension and *.e for every large file with
\* extension .e, so that every large file is matched by a migrated pattern.
C27_LiteralPathOrStarExtension ==
    (conv_pc = "returned" /\ ~InstallFailed) =>
        /\ {Migrated[k] : k \in 1..Len(Migrated)}
              = {PatternFor(large_files[k].path) : k \in 1..Len(large_files)}
        /\ \A k \in 1..Len(large_files) :
              \E j \in 1..Len(Migrated) : Matches(Migrated[j], large_files[k].path)

\* The steps of the script, in the order of the main block.
MainSteps == <<"scan", "attributes", "conversion", "push">>

StepRan(step) == \E k \in 1..Len(steps) : steps[k] = step

\* C24: the script runs scan, attributes update, conversion and push in this
\* order, each after the one before it ended; it pushes only when the
\* conversion returned success, no migration having failed; and when the
\* scan finds no large file, it runs none of the later steps.
C24_StepsInOrderPushOnlyAfterSuccess ==
    /\ IsPrefix(steps, MainSteps)
    /\ (op # "none") => StepRan("attributes")
    /\ (conv_pc # "idle") => (StepRan("conversion") /\ op = "create_gitattributes_for_large_files")
    /\ (push_pc \notin {"new", "constructed"}) => (StepRan("push") /\ conv_pc = "returned")
    /\ StepRan("push") =>
          /\ conv_result = "True"
          /\ failed_patterns = <<>>
          /\ \A k \in 1..Len(conv_calls) :
                conv_calls[k].call = "migrate_import" => conv_calls[k].code = 0
    /\ (main_pc = "done" /\ large_files = <<>>) =>
          /\ steps = <<"scan">>
          /\ op = "none"
          /\ conv_pc = "idle"
          /\ push_pc = "constructed"
          /\ commands = <<>>

\* The script ran to its end with a push that followed a conversion.
C24_Witness ==
    /\ main_pc = "done"
    /\ steps = MainSteps
    /\ push_pc = "returned"
    /\ Len(converted_patterns) > 0

\* The text GitLFS.create_gitattributes appends to a file of this content for
\* these files.
LibraryAppends(files, content) ==
    LET patterns_to_add ==
            Sorted(NewPatterns(files) \ ExistingPatterns(TRUE, content))
    IN  IF patterns_to_add = <<>> THEN <<>> ELSE LibraryText(content, patterns_to_add)

\* The text create_gitattributes_for_large_files appends to a file of this
\* content for these files.
ScriptAppends(files, content) ==
    IF ScriptNewPatterns(files) = {}
    THEN <<>>
    ELSE ScriptText(content, Sorted(ScriptNewPatterns(files)),
                    ExistingPatterns(TRUE, content))

\* C31: for the same list of large files and the same content of
\* .gitattributes, GitLFS.create_gitattributes and
\* create_gitattributes_for_large_files append lines for the same set of
\* patterns: what the one that ran appended tracks the patterns the other
\* would have appended.
C31_BothAppendTheSamePatterns ==
    (op # "none" /\ ~io_error) =>
        /\ Appended = (IF LibraryRan THEN LibraryAppends(large_files, before)
                                     ELSE ScriptAppends(large_files, before))
        /\ TrackedPatterns(LibraryAppends(large_files, before))
              = TrackedPatterns(ScriptAppends(large_files, before))

====
